---- MODULE Spec2Model ----
\* A model of src/src/main.rs: the command line front end, the cache run
\* (orchestrator simulate_distributed_client, the worker tasks simulate_client,
\* the shared AggregatorData behind a Mutex), the result file and read mode.
EXTENDS Integers, Sequences, FiniteSets, Bags, TLC

\* ------------------------------------------------------------------ bounds

\* Largest --times=<N> the command line is given.
MaxTimes == 1
\* Bits of significand of the modelled binary floating point (f64 has 53).
Prec == 4
\* Number of worker tasks the model runs (the program spawns (1..=5)).
NumClients == 2
\* Most samples a worker has collected where the runs start at the barrier.
MaxSamples == 3
\* Most values appended to an AggregatorData used on its own.
MaxAppends == 3

\* --------------------------------------------------------- program constants

\* unwrap_or(10): the duration when the --times value does not parse.
DefaultTimes == 10

Clients == 1..NumClients

\* ------------------------------------------------------------------- f64
\* A float is <<class, m, e>>: "nan"; "inf" with m the sign; "fin" with value
\* m * 2^e, m odd or zero, |m| < 2^Prec.  Arithmetic rounds to nearest, ties to
\* even, as IEEE 754 does.  The exponent is unbounded.

NaN == <<"nan", 0, 0>>
Inf(s) == <<"inf", s, 0>>
Zero == <<"fin", 0, 0>>

Abs(x) == IF x < 0 THEN -x ELSE x
Sgn(x) == IF x < 0 THEN -1 ELSE 1
Min(a, b) == IF a < b THEN a ELSE b

\* 2^k, the number of bits of n, and m * 2^e with the trailing zero bits of m
\* moved into the exponent.
Pow2F[k \in Nat] == IF k = 0 THEN 1 ELSE 2 * Pow2F[k - 1]
Pow2(k) == Pow2F[k]

BitLenF[n \in Nat] == IF n = 0 THEN 0 ELSE 1 + BitLenF[n \div 2]
BitLen(n) == BitLenF[n]

StripF[m \in Int, e \in Int] ==
    IF m = 0 THEN Zero
    ELSE IF m % 2 = 0 THEN StripF[m \div 2, e + 1]
    ELSE <<"fin", m, e>>
Strip(m, e) == StripF[m, e]

\* Round the exact value m * 2^e to Prec significant bits.
RoundF[m \in Int, e \in Int] ==
    LET a == Abs(m)
        k == BitLen(a) - Prec
    IN IF k <= 0 THEN Strip(m, e)
       ELSE LET q == a \div Pow2(k)
                r == a % Pow2(k)
                half == Pow2(k - 1)
                up == r > half \/ (r = half /\ q % 2 = 1)
            IN Strip(Sgn(m) * (IF up THEN q + 1 ELSE q), e + k)
Round(m, e) == RoundF[m, e]

IsNaN(x) == x[1] = "nan"

FromInt(n) == Round(n, 0)

FAdd(x, y) ==
    IF IsNaN(x) \/ IsNaN(y) THEN NaN
    ELSE IF x[1] = "inf" /\ y[1] = "inf" THEN (IF x[2] = y[2] THEN x ELSE NaN)
    ELSE IF x[1] = "inf" THEN x
    ELSE IF y[1] = "inf" THEN y
    ELSE LET e0 == Min(x[3], y[3])
         IN Round(x[2] * Pow2(x[3] - e0) + y[2] * Pow2(y[3] - e0), e0)

FDiv(x, y) ==
    IF IsNaN(x) \/ IsNaN(y) THEN NaN
    ELSE IF x[1] = "inf" THEN (IF y[1] = "inf" THEN NaN ELSE Inf(x[2] * Sgn(y[2])))
    ELSE IF y[1] = "inf" THEN Zero
    ELSE IF y[2] = 0 THEN (IF x[2] = 0 THEN NaN ELSE Inf(Sgn(x[2])))
    ELSE LET s == 2 * Prec + 1
             n == Abs(x[2]) * Pow2(s)
             d == Abs(y[2])
             q == n \div d
             sticky == IF n % d = 0 THEN 0 ELSE 1
         IN Round(Sgn(x[2]) * Sgn(y[2]) * (2 * q + sticky), x[3] - y[3] - s - 1)

\* iter().sum::<f64>(): the elements added in order, from 0.0.
FSum(s) ==
    LET acc[k \in 0..Len(s)] == IF k = 0 THEN Zero ELSE FAdd(acc[k - 1], s[k])
    IN acc[Len(s)]

\* ----------------------------------------------------------------- inputs

\* A command line argument is the sequence of its '='-separated fields.
ModeCache == <<"--mode", "cache">>
ModeRead == <<"--mode", "read">>
TimesArg(n) == <<"--times", n>>

\* s.parse::<u64>(): the decimal strings the model uses; anything else fails.
ParsesU64(s) == s \in {"0", "1", "2", "3", "4", "5"}
ParseU64(s) == CASE s = "0" -> 0 [] s = "1" -> 1 [] s = "2" -> 2 [] s = "3" -> 3
                 [] s = "4" -> 4 [] s = "5" -> 5

TimesStrings == {"0", "1", "2", "3", "4", "5"}

\* The argument vectors main is started with (args[0] is the program name).
ArgVectors ==
    {<<"simple">>, <<"simple", ModeRead>>, <<"simple", <<"--bogus">>>>,
     <<"simple", ModeCache>>, <<"simple", ModeCache, <<"--fast">>>>}
    \cup {<<"simple", ModeCache, TimesArg(n)>> :
            n \in {t \in TimesStrings : ParseU64(t) <= MaxTimes}}

\* The amount strings the feed answers with, and the malformed body.
Malformed == "malformed"
AmountStrings == {"1", "3", "abc"}
Bodies == {Malformed} \cup AmountStrings

\* s.parse::<f64>()
ParsesF64(s) == s \in {"1", "3", "7"}
ParseF64(s) == CASE s = "1" -> FromInt(1) [] s = "3" -> FromInt(3)
                 [] s = "7" -> FromInt(7)

\* ------------------------------------------------------------------ state

VARIABLES
    args,      \* std::env::args() of the current process
    opc,       \* where main / simulate_distributed_client stands
    exit,      \* how the process ended: "none", "ok", "err", "panic"
    times,     \* the duration of the cache run, seconds
    now,       \* whole seconds on the monotonic clock, saturating at times
    spawned,   \* number of handles created so far
    joined,    \* number of handles awaited so far
    wpc,       \* where each worker task stands
    sum,       \* each worker's running sum
    count,     \* each worker's sample count
    resp,      \* the response a worker is decoding
    averages,  \* AggregatorData.averages
    holders,   \* the tasks inside the aggregator's Mutex
    final,     \* final_aggregate
    calls,     \* calls made in this run: reductions and file writes
    store,     \* result.txt: whether it exists, and its lines
    out,       \* the lines main and the functions it calls have printed
    start_time,\* the instant simulate_distributed_client recorded
    wstart     \* each worker's start_time parameter

vars == <<args, opc, exit, times, now, spawned, joined, wpc, sum, count, resp,
          averages, holders, final, calls, store, out, start_time, wstart>>

Orch == 0

NoCalls == [reduce |-> 0, write |-> 0]

\* {} of an f64: "NaN", "inf", "-inf", or the digits of the number.
Display(v) == IF v[1] = "nan" THEN <<"NaN">>
              ELSE IF v[1] = "inf" THEN (IF v[2] < 0 THEN <<"-inf">> ELSE <<"inf">>)
              ELSE <<"num", v[2], v[3]>>

ResultLine(v) == <<"Final aggregate of USD prices of BTC: ", Display(v)>>

\* AggregatorData::new
AggregatorNew == <<>>

\* add_average, had it kept only the latest value (an assignment for the push).
add_average_overwrites(avgs, average) == <<average>>

\* AggregatorData::add_average
add_average(avgs, average) == Append(avgs, average)

\* calculate_final_aggregate, had it returned the sum undivided.
calculate_final_aggregate_sum(avgs) == IF avgs = <<>> THEN Zero ELSE FSum(avgs)

\* AggregatorData::calculate_final_aggregate
calculate_final_aggregate(avgs) ==
    IF avgs = <<>> THEN Zero ELSE FDiv(FSum(avgs), FromInt(Len(avgs)))

\* OpenOptions ... truncate(true).open(): the file exists and is empty.
Truncated == [exists |-> TRUE, lines |-> <<>>]

\* What the file holds after writeln! of the line into the opened file f.
Written(f, v) == [exists |-> TRUE, lines |-> Append(f.lines, ResultLine(v))]

\* result.txt when the process starts: never written, or as an earlier cache
\* run left it (its line, or truncated when its writeln! failed).
Absent == [exists |-> FALSE, lines |-> <<>>]
InitialStores == {Absent, Truncated, Written(Truncated, NaN)}

\* The state when the process starts.
Init ==
    /\ args = <<>>
    /\ opc = "shell"
    /\ exit = "none"
    /\ times = 0
    /\ now = 0
    /\ spawned = 0
    /\ joined = 0
    /\ wpc = [i \in Clients |-> "idle"]
    /\ sum = [i \in Clients |-> Zero]
    /\ count = [i \in Clients |-> 0]
    /\ resp = [i \in Clients |-> "none"]
    /\ averages = AggregatorNew
    /\ holders = {}
    /\ final = Zero
    /\ calls = NoCalls
    /\ store \in InitialStores
    /\ out = <<>>
    /\ start_time = 0
    /\ wstart = [i \in Clients |-> 0]

\* ------------------------------------------------------------------- main

StartsWithTimes(a) == a[1] = "--times"

\* args[2].split('=').nth(1).and_then(|s| s.parse().ok()).unwrap_or(10)
TimesOf(a) == IF Len(a) >= 2 /\ ParsesU64(a[2]) THEN ParseU64(a[2]) ELSE DefaultTimes

\* print_usage
UsageText == <<"Usage:", "  ./simple --mode=<cache|read> [--times=<seconds>]">>

SelectedCache == "Selected mode: Cache"
SelectedRead == "Selected mode: Read"
InvalidMode == "Invalid mode. Use cache or read."
InvalidArgument == "Invalid argument for cache mode. Use --times=<seconds>."

\* main, up to the call of simulate_distributed_client or of read_mode, or to
\* its return.  Rust's args[1], args[2] are a[2], a[3] here; args[2] of a
\* two-element vector is out of bounds.  simulate_distributed_client begins by
\* recording start_time.
Main(a) ==
    /\ opc = "shell"
    /\ args' = a
    /\ start_time' = now
    /\ UNCHANGED <<now, spawned, joined, wpc, sum, count, resp, averages, holders,
                   final, calls, store, wstart>>
    /\ IF Len(a) < 2
       THEN opc' = "exit" /\ exit' = "ok" /\ times' = 0 /\ out' = UsageText
       ELSE IF a[2] = ModeCache
       THEN IF Len(a) < 3
            THEN /\ opc' = "exit" /\ exit' = "panic" /\ times' = 0
                 /\ out' = <<SelectedCache>>
            ELSE IF StartsWithTimes(a[3])
            THEN /\ opc' = "spawn" /\ exit' = "none" /\ times' = TimesOf(a[3])
                 /\ out' = <<SelectedCache>>
            ELSE /\ opc' = "exit" /\ exit' = "ok" /\ times' = 0
                 /\ out' = <<SelectedCache, InvalidArgument>>
       ELSE IF a[2] = ModeRead
       THEN /\ opc' = "read" /\ exit' = "none" /\ times' = 0
            /\ out' = <<SelectedRead>>
       ELSE /\ opc' = "exit" /\ exit' = "ok" /\ times' = 0
            /\ out' = <<InvalidMode>> \o UsageText

\* -------------------------------------------------------------- read mode

FileEmpty == "The result.txt file is empty. Run in cache mode first."
FileMissing == "The result.txt file does not exist. Run in cache mode first."

\* How reading a non-empty file goes: every line is read, File::open fails,
\* or a line cannot be read (an I/O error, bytes that are not UTF-8).
ReadOutcomes == {"ok", "open_err", "read_err"}

\* read_mode, had it opened the file with the writer's options (truncating).
ReadModeTruncating(o, k) ==
    /\ opc = "read"
    /\ opc' = "exit"
    /\ IF ~store.exists
       THEN /\ o = "ok" /\ k = 0 /\ out' = Append(out, FileMissing) /\ exit' = "ok"
            /\ store' = store
       ELSE IF store.lines = <<>>
       THEN /\ o = "ok" /\ k = 0 /\ out' = Append(out, FileEmpty) /\ exit' = "ok"
            /\ store' = store
       ELSE /\ k = CASE o = "ok" -> Len(store.lines)
                     [] o = "open_err" -> 0
                     [] o = "read_err" -> k
            /\ o = "read_err" => k < Len(store.lines)
            /\ out' = out \o SubSeq(store.lines, 1, k)
            /\ exit' = IF o = "ok" THEN "ok" ELSE "err"
            /\ store' = IF o = "open_err" THEN store ELSE Truncated
    /\ UNCHANGED <<args, times, now, spawned, joined, wpc, sum, count, resp,
                   averages, holders, final, calls, start_time, wstart>>

\* read_mode()?; Ok(()).  Of a non-empty file the first k lines are printed:
\* all of them, or those before the failure.
ReadMode(o, k) ==
    /\ opc = "read"
    /\ opc' = "exit"
    /\ IF ~store.exists
       THEN o = "ok" /\ k = 0 /\ out' = Append(out, FileMissing) /\ exit' = "ok"
       ELSE IF store.lines = <<>>
       THEN o = "ok" /\ k = 0 /\ out' = Append(out, FileEmpty) /\ exit' = "ok"
       ELSE /\ k = CASE o = "ok" -> Len(store.lines)
                     [] o = "open_err" -> 0
                     [] o = "read_err" -> k
            /\ o = "read_err" => k < Len(store.lines)
            /\ out' = out \o SubSeq(store.lines, 1, k)
            /\ exit' = IF o = "ok" THEN "ok" ELSE "err"
    /\ UNCHANGED <<args, times, now, spawned, joined, wpc, sum, count, resp,
                   averages, holders, final, calls, store, start_time, wstart>>

\* ----------------------------------------------------------- orchestrator

\* The argument, had each task been given the instant of its own spawn.
SpawnStartOwn == now

\* The start_time argument of simulate_client: the orchestrator's instant.
SpawnStart == start_time

\* tokio::spawn(simulate_client(i, ...)), one call of the map closure.
Spawn ==
    /\ opc = "spawn"
    /\ spawned' = spawned + 1
    /\ wpc' = [wpc EXCEPT ![spawned + 1] = "new"]
    /\ wstart' = [wstart EXCEPT ![spawned + 1] = SpawnStart]
    /\ opc' = IF spawned + 1 = NumClients THEN "join" ELSE "spawn"
    /\ UNCHANGED <<args, exit, times, now, joined, sum, count, resp, averages,
                   holders, final, calls, store, out, start_time>>

\* The join, had it not waited for the task.
JoinReadyAtOnce(j) == TRUE

\* The awaited task has finished, one way or the other.
JoinReady(j) == wpc[j] \in {"done", "panicked"}

\* The join, had the JoinError been dropped (handle.await without the ?).
JoinFailsNever(j) == FALSE

\* handle.await yields Err(JoinError) for a task that panicked.
JoinFails(j) == wpc[j] = "panicked"

\* handle.await? for the next handle.
Join ==
    /\ opc = "join"
    /\ JoinReady(joined + 1)
    /\ IF JoinFails(joined + 1)
       THEN opc' = "exit" /\ exit' = "err" /\ joined' = joined
       ELSE /\ joined' = joined + 1
            /\ opc' = IF joined + 1 = NumClients THEN "lock" ELSE "join"
            /\ exit' = exit
    /\ UNCHANGED <<args, times, now, spawned, wpc, sum, count, resp, averages,
                   holders, final, calls, store, out, start_time, wstart>>

\* The lock, had it let a task in while another is inside.
LockFreeAlways == TRUE

\* Mutex::lock succeeds when nobody is inside.
LockFree == holders = {}

\* shared_aggregator_data.lock().unwrap()
OrchLock ==
    /\ opc = "lock"
    /\ LockFree
    /\ holders' = holders \cup {Orch}
    /\ opc' = "reduce"
    /\ UNCHANGED <<args, exit, times, now, spawned, joined, wpc, sum, count, resp,
                   averages, final, calls, store, out, start_time, wstart>>

AggregateLine(v) == <<"Aggregator: Final aggregate of USD prices of BTC is: ", Display(v)>>

\* .calculate_final_aggregate(); the guard is dropped at the end of the
\* statement; the aggregate is printed.
Reduce ==
    /\ opc = "reduce"
    /\ final' = calculate_final_aggregate(averages)
    /\ holders' = holders \ {Orch}
    /\ calls' = [calls EXCEPT !.reduce = @ + 1]
    /\ out' = Append(out, AggregateLine(calculate_final_aggregate(averages)))
    /\ opc' = "write"
    /\ UNCHANGED <<args, exit, times, now, spawned, joined, wpc, sum, count, resp,
                   averages, store, start_time, wstart>>

WriteOutcomes == {"ok", "open_err", "write_err"}

\* The open, had it kept the old content (append for truncate).
OpenedAppending(f) == [exists |-> TRUE, lines |-> f.lines]

\* OpenOptions::new().write(true).create(true).truncate(true).open() of file f.
Opened(f) == Truncated

\* write_final_aggregate_to_file(final_aggregate)?; Ok(())
WriteFile(o) ==
    /\ opc = "write"
    /\ calls' = [calls EXCEPT !.write = @ + 1]
    /\ store' = CASE o = "open_err" -> store
                  [] o = "write_err" -> Opened(store)
                  [] o = "ok" -> Written(Opened(store), final)
    /\ exit' = IF o = "ok" THEN "ok" ELSE "err"
    /\ opc' = "exit"
    /\ UNCHANGED <<args, times, now, spawned, joined, wpc, sum, count, resp,
                   averages, holders, final, out, start_time, wstart>>

\* ---------------------------------------------------------------- workers

\* The runtime runs tasks until main returns.
Alive == opc \in {"spawn", "join", "lock", "reduce", "write"}

\* reqwest::Client::new() returns, or panics (no TLS backend, no resolver).
ClientNew(i, ok) ==
    /\ Alive
    /\ wpc[i] = "new"
    /\ wpc' = [wpc EXCEPT ![i] = IF ok THEN "check" ELSE "panicked"]
    /\ UNCHANGED <<args, opc, exit, times, now, spawned, joined, sum, count, resp,
                   averages, holders, final, calls, store, out, start_time, wstart>>

\* The loop condition, had it admitted the deadline itself (<= for <).
InWindowInclusive(i) == now - wstart[i] <= times

\* The loop condition, had it never failed.
InWindowForever(i) == now - wstart[i] >= 0

\* start_time.elapsed().as_secs() < times
InWindow(i) == now - wstart[i] < times

\* The loop condition: into the body (the request is sent), or out of the loop.
CheckDeadline(i) ==
    /\ Alive
    /\ wpc[i] = "check"
    /\ wpc' = [wpc EXCEPT ![i] = IF InWindow(i) THEN "send" ELSE "final"]
    /\ UNCHANGED <<args, opc, exit, times, now, spawned, joined, sum, count, resp,
                   averages, holders, final, calls, store, out, start_time, wstart>>

\* The send, had a failed request gone back to the loop condition at once
\* (continue before the sleep).
SendReturnNoSleep(i, r) ==
    /\ Alive
    /\ wpc[i] = "send"
    /\ IF r = "neterr"
       THEN wpc' = [wpc EXCEPT ![i] = "check"] /\ resp' = resp
       ELSE wpc' = [wpc EXCEPT ![i] = "json"] /\ resp' = [resp EXCEPT ![i] = r]
    /\ UNCHANGED <<args, opc, exit, times, now, spawned, joined, sum, count,
                   averages, holders, final, calls, store, out, start_time, wstart>>

\* client.get(url).send().await: an error, or a response with body r.
SendReturn(i, r) ==
    /\ Alive
    /\ wpc[i] = "send"
    /\ IF r = "neterr"
       THEN wpc' = [wpc EXCEPT ![i] = "sleep"] /\ resp' = resp
       ELSE wpc' = [wpc EXCEPT ![i] = "json"] /\ resp' = [resp EXCEPT ![i] = r]
    /\ UNCHANGED <<args, opc, exit, times, now, spawned, joined, sum, count,
                   averages, holders, final, calls, store, out, start_time, wstart>>

\* message.data.amount.parse::<f64>().unwrap_or(0.0)
AmountOf(s) == IF ParsesF64(s) THEN ParseF64(s) ELSE Zero

\* response.json::<CoinbaseResponse>().await decodes or fails.
Decodes(r) == r # Malformed

\* The decoding, had a body that does not decode panicked the task (unwrap).
JsonReturnUnwrapped(i) ==
    /\ Alive
    /\ wpc[i] = "json"
    /\ IF Decodes(resp[i])
       THEN /\ sum' = [sum EXCEPT ![i] = FAdd(@, AmountOf(resp[i]))]
            /\ count' = [count EXCEPT ![i] = @ + 1]
            /\ wpc' = [wpc EXCEPT ![i] = "sleep"]
       ELSE /\ UNCHANGED <<sum, count>>
            /\ wpc' = [wpc EXCEPT ![i] = "panicked"]
    /\ resp' = [resp EXCEPT ![i] = "none"]
    /\ UNCHANGED <<args, opc, exit, times, now, spawned, joined,
                   averages, holders, final, calls, store, out, start_time, wstart>>

\* The decoding, had sum and count been one pair shared by all the workers.
JsonReturnShared(i) ==
    /\ Alive
    /\ wpc[i] = "json"
    /\ IF Decodes(resp[i])
       THEN /\ sum' = [j \in Clients |-> FAdd(sum[j], AmountOf(resp[i]))]
            /\ count' = [j \in Clients |-> count[j] + 1]
       ELSE UNCHANGED <<sum, count>>
    /\ resp' = [resp EXCEPT ![i] = "none"]
    /\ wpc' = [wpc EXCEPT ![i] = "sleep"]
    /\ UNCHANGED <<args, opc, exit, times, now, spawned, joined,
                   averages, holders, final, calls, store, out, start_time, wstart>>

\* response.json().await returns; on Ok the amount is added and counted.
JsonReturn(i) ==
    /\ Alive
    /\ wpc[i] = "json"
    /\ IF Decodes(resp[i])
       THEN /\ sum' = [sum EXCEPT ![i] = FAdd(@, AmountOf(resp[i]))]
            /\ count' = [count EXCEPT ![i] = @ + 1]
       ELSE UNCHANGED <<sum, count>>
    /\ resp' = [resp EXCEPT ![i] = "none"]
    /\ wpc' = [wpc EXCEPT ![i] = "sleep"]
    /\ UNCHANGED <<args, opc, exit, times, now, spawned, joined,
                   averages, holders, final, calls, store, out, start_time, wstart>>

\* The average, had an empty window been given 0.0 instead of 0.0 / 0.
AverageOrZero(i) == IF count[i] = 0 THEN Zero ELSE FDiv(sum[i], FromInt(count[i]))

\* The average, had the sum been left undivided.
AverageUndivided(i) == sum[i]

\* let average = sum / count as f64
Average(i) == FDiv(sum[i], FromInt(count[i]))

\* shared_aggregator_data.lock().unwrap()
WorkerLock(i) ==
    /\ Alive
    /\ wpc[i] = "final"
    /\ LockFree
    /\ holders' = holders \cup {i}
    /\ wpc' = [wpc EXCEPT ![i] = "locked"]
    /\ UNCHANGED <<args, opc, exit, times, now, spawned, joined, sum, count, resp,
                   averages, final, calls, store, out, start_time, wstart>>

\* .add_average(average); the guard is dropped; Ok(())
AddAverage(i) ==
    /\ Alive
    /\ wpc[i] = "locked"
    /\ averages' = add_average(averages, Average(i))
    /\ holders' = holders \ {i}
    /\ wpc' = [wpc EXCEPT ![i] = "done"]
    /\ UNCHANGED <<args, opc, exit, times, now, spawned, joined, sum, count, resp,
                   final, calls, store, out, start_time, wstart>>

\* ------------------------------------------------------------------ clock

\* A worker in tokio::time::sleep(Duration::from_secs(1)).
Sleeping(i) == wpc[i] = "sleep"

\* One more whole second has elapsed since start_time; every sleep that began
\* before it is over.  Only elapsed < times is ever read, so the count stops at
\* times.
Tick ==
    /\ Alive
    /\ now < times \/ \E i \in Clients : Sleeping(i)
    /\ now' = IF now < times THEN now + 1 ELSE now
    /\ wpc' = [i \in Clients |-> IF Sleeping(i) THEN "check" ELSE wpc[i]]
    /\ UNCHANGED <<args, opc, exit, times, spawned, joined, sum, count, resp,
                   averages, holders, final, calls, store, out, start_time, wstart>>

\* ------------------------------------------------------------ specification

Worker(i) ==
    \/ \E ok \in BOOLEAN : ClientNew(i, ok)
    \/ CheckDeadline(i)
    \/ \E r \in {"neterr"} \cup Bodies : SendReturn(i, r)
    \/ JsonReturn(i)
    \/ WorkerLock(i)
    \/ AddAverage(i)

Next ==
    \/ \E a \in ArgVectors : Main(a)
    \/ \E o \in ReadOutcomes : \E k \in 0..Len(store.lines) : ReadMode(o, k)
    \/ Spawn
    \/ Join
    \/ OrchLock
    \/ Reduce
    \/ \E o \in WriteOutcomes : WriteFile(o)
    \/ \E i \in Clients : Worker(i)
    \/ Tick

Spec == Init /\ [][Next]_vars

\* The clock advances, the runtime schedules every task that can run, every
\* request and every sleep returns, and main runs on.
Fairness ==
    /\ WF_vars(Tick)
    /\ WF_vars(\E o \in ReadOutcomes : \E k \in 0..Len(store.lines) : ReadMode(o, k))
    /\ WF_vars(Spawn) /\ WF_vars(Join) /\ WF_vars(OrchLock) /\ WF_vars(Reduce)
    /\ WF_vars(\E o \in WriteOutcomes : WriteFile(o))
    /\ \A i \in Clients :
          /\ WF_vars(\E ok \in BOOLEAN : ClientNew(i, ok))
          /\ WF_vars(CheckDeadline(i))
          /\ WF_vars(\E r \in {"neterr"} \cup Bodies : SendReturn(i, r))
          /\ WF_vars(JsonReturn(i))
          /\ WF_vars(WorkerLock(i))
          /\ WF_vars(AddAverage(i))

LiveSpec == Init /\ [][Next]_vars /\ Fairness

\* ------------------------------------------------- runs from the barrier on

\* The amounts the feed answered with in the runs that start at the barrier.
BarrierAmounts == {AmountOf("1"), AmountOf("7")}

\* The (sum, count) a worker can leave its loop with after at most n samples:
\* sum += amount; count += 1 for each of them, in the order they came.
LoopResultsF[n \in Nat] ==
    IF n = 0 THEN {<<Zero, 0>>}
    ELSE LoopResultsF[n - 1] \cup
         {<<FAdd(r[1], a), r[2] + 1>> : r \in LoopResultsF[n - 1], a \in BarrierAmounts}

LoopResults == LoopResultsF[MaxSamples]

\* A cache run of MaxSamples seconds at the moment every worker has left its
\* loop and printed its average, and no worker has taken the lock yet.
BarrierInit ==
    /\ args = <<"simple", ModeCache,
                TimesArg(CHOOSE t \in TimesStrings : ParseU64(t) = MaxSamples)>>
    /\ opc = "join"
    /\ exit = "none"
    /\ times = MaxSamples
    /\ now = MaxSamples
    /\ spawned = NumClients
    /\ joined = 0
    /\ wpc = [i \in Clients |-> "final"]
    /\ \E res \in [Clients -> LoopResults] :
          /\ sum = [i \in Clients |-> res[i][1]]
          /\ count = [i \in Clients |-> res[i][2]]
    /\ resp = [i \in Clients |-> "none"]
    /\ averages = AggregatorNew
    /\ holders = {}
    /\ final = Zero
    /\ calls = NoCalls
    /\ store \in InitialStores
    /\ out = <<SelectedCache>>
    /\ start_time = 0
    /\ wstart = [i \in Clients |-> 0]

BarrierNext ==
    \/ Join
    \/ OrchLock
    \/ Reduce
    \/ \E o \in WriteOutcomes : WriteFile(o)
    \/ \E i \in Clients : WorkerLock(i) \/ AddAverage(i)

BarrierSpec == BarrierInit /\ [][BarrierNext]_vars

\* ------------------------------------------------ the AggregatorData alone

\* Averages appended to an AggregatorData used on its own: NaN, 1, 3, and
\* 2^Prec, the least value whose neighbours are 2 apart (2^53 for f64).
AggValues == {NaN, FromInt(1), FromInt(3), FromInt(Pow2(Prec))}

\* AggregatorData::new(), outside any run.
AggInit ==
    /\ args = <<>>
    /\ opc = "agg"
    /\ exit = "none"
    /\ times = 0
    /\ now = 0
    /\ spawned = 0
    /\ joined = 0
    /\ wpc = [i \in Clients |-> "idle"]
    /\ sum = [i \in Clients |-> Zero]
    /\ count = [i \in Clients |-> 0]
    /\ resp = [i \in Clients |-> "none"]
    /\ averages = AggregatorNew
    /\ holders = {}
    /\ final = Zero
    /\ calls = NoCalls
    /\ store = Absent
    /\ out = <<>>
    /\ start_time = 0
    /\ wstart = [i \in Clients |-> 0]

\* data.add_average(v)
AggAppend(v) ==
    /\ opc \in {"agg", "reduced"}
    /\ Len(averages) < MaxAppends
    /\ averages' = add_average(averages, v)
    /\ opc' = "agg"
    /\ UNCHANGED <<args, exit, times, now, spawned, joined, wpc, sum, count, resp,
                   holders, final, calls, store, out, start_time, wstart>>

\* final = data.calculate_final_aggregate()
AggReduce ==
    /\ opc = "agg"
    /\ final' = calculate_final_aggregate(averages)
    /\ opc' = "reduced"
    /\ UNCHANGED <<args, exit, times, now, spawned, joined, wpc, sum, count, resp,
                   averages, holders, calls, store, out, start_time, wstart>>

AggNext == (\E v \in AggValues : AggAppend(v)) \/ AggReduce

AggSpec == AggInit /\ [][AggNext]_vars

\* ================================================================= claims

DoneWorkers == {i \in Clients : wpc[i] = "done"}
Panicked == {i \in Clients : wpc[i] = "panicked"}
CacheRun == opc # "shell" /\ Len(args) >= 3 /\ args[2] = ModeCache /\ StartsWithTimes(args[3])
Occurrences(v) == Cardinality({k \in 1..Len(averages) : averages[k] = v})
InLoop(p) == p \in {"check", "send", "json", "sleep"}

\* C1: the aggregator's collection holds exactly one value, the worker's own
\* average, for each worker that has reached Done and nothing else; when the
\* orchestrator reduces it holds one value per spawned worker.
C1_OnePerDoneWorker ==
    /\ Len(averages) = Cardinality(DoneWorkers)
    /\ \A i \in DoneWorkers :
          Occurrences(Average(i)) = Cardinality({j \in DoneWorkers : Average(j) = Average(i)})
    /\ (opc = "reduce" \/ calls.reduce > 0) => Len(averages) = NumClients

C1_Witness ==
    /\ opc = "reduce"
    /\ times > 0
    /\ Len(averages) = NumClients
    /\ \E i, j \in Clients : count[i] = 0 /\ count[j] > 0

\* C2: the orchestrator is inside the aggregator's lock, or has reduced, only
\* when every worker is Done.
C2_ReduceAfterAllDone ==
    (Orch \in holders \/ opc = "reduce" \/ calls.reduce > 0) => DoneWorkers = Clients

C2_Witness == opc = "reduce" /\ Orch \in holders /\ times > 0 /\ DoneWorkers = Clients

\* C3 as claimed: every cache run ends with every worker Done, the aggregate
\* reduced and the result persisted.
C3_AlwaysPersists ==
    (opc = "spawn") ~> (/\ DoneWorkers = Clients
                        /\ calls.reduce = 1
                        /\ store = Written(Truncated, final))

\* A worker leaves its loop only by its own deadline check finding the
\* deadline reached.
LeavesLoopByDeadline ==
    \A i \in Clients :
        (InLoop(wpc[i]) /\ ~InLoop(wpc'[i])) =>
            (wpc[i] = "check" /\ ~InWindow(i) /\ wpc'[i] = "final")

\* How a cache run that has ended went.
C3_Ended ==
    (opc = "exit" /\ CacheRun) =>
        /\ Panicked = {} => (DoneWorkers = Clients /\ calls.reduce = 1 /\ calls.write = 1)
        /\ exit = "ok" => store = Written(Truncated, final)

\* C3, amended: every cache run terminates; when no worker task panicked every
\* worker is Done and the orchestrator has reduced and attempted the write, and
\* when the write succeeded the result is persisted; a worker leaves its loop
\* only by its own deadline check.
C3_Terminates ==
    /\ (opc = "spawn") ~> (opc = "exit")
    /\ [](C3_Ended)
    /\ [][LeavesLoopByDeadline]_vars

C3_Witness ==
    /\ opc = "exit" /\ exit = "ok" /\ times > 0
    /\ store = Written(Truncated, final)
    /\ \E i \in Clients : count[i] > 0

\* C4: at most one task is inside the aggregator's lock; a worker is inside
\* only between its lock and its append, never while it waits on a request or
\* sleeps; a worker waiting for the lock gets it.
C4_LockInv ==
    /\ Cardinality(holders) <= 1
    /\ \A i \in Clients : i \in holders <=> wpc[i] = "locked"
    /\ Orch \in holders <=> opc = "reduce"

C4_Mutex ==
    /\ [](C4_LockInv)
    /\ \A i \in Clients : (wpc[i] = "final") ~> (wpc[i] = "done" \/ opc = "exit")

C4_Witness ==
    \E i, j \in Clients : i # j /\ wpc[i] = "locked" /\ holders = {i} /\ wpc[j] = "final"

\* The response a worker is decoding is a failed sample: it does not decode,
\* or its amount does not parse.
FailedSample(r) == ~Decodes(r) \/ ~ParsesF64(r)

\* C5: an iteration whose sample fails (the request fails, the body does not
\* decode, the amount does not parse) leaves the worker's sum and count
\* unchanged and goes on to the delay.
C5_FailureSkipped ==
    [][\A i \in Clients :
          (\/ wpc[i] = "send" /\ wpc'[i] = "sleep"
           \/ wpc[i] = "json" /\ FailedSample(resp[i]) /\ wpc'[i] # "json")
          => (sum'[i] = sum[i] /\ count'[i] = count[i] /\ wpc'[i] = "sleep")]_vars

\* C6: with --times=0 no worker sends a request, every appended average is
\* NaN, the reduced value is NaN and the line written shows NaN.
C6_ZeroDuration ==
    (CacheRun /\ times = 0) =>
        /\ \A i \in Clients : wpc[i] \notin {"send", "json", "sleep"} /\ count[i] = 0
        /\ \A k \in 1..Len(averages) : IsNaN(averages[k])
        /\ calls.reduce > 0 => IsNaN(final)
        /\ exit = "ok" => store.lines = <<<<"Final aggregate of USD prices of BTC: ", <<"NaN">>>>>>

C6_Witness ==
    /\ CacheRun /\ times = 0 /\ exit = "ok"
    /\ Len(averages) = NumClients
    /\ store.lines = <<ResultLine(NaN)>>

\* C7: a worker that left its loop with no sample appends NaN, and once a NaN
\* is among the appended values the reduced and the persisted value are NaN.
C7_NaNPropagates ==
    /\ \A i \in DoneWorkers : count[i] = 0 => \E k \in 1..Len(averages) : IsNaN(averages[k])
    /\ (calls.reduce > 0 /\ \E k \in 1..Len(averages) : IsNaN(averages[k])) =>
          /\ IsNaN(final)
          /\ exit = "ok" => store.lines = <<<<"Final aggregate of USD prices of BTC: ", <<"NaN">>>>>>

C7_Witness ==
    /\ exit = "ok" /\ times > 0
    /\ \E i, j \in Clients : count[i] = 0 /\ count[j] > 0 /\ ~IsNaN(Average(j))
    /\ IsNaN(final)

\* C8: once a worker task has panicked the run never ends in success and
\* never reduces or writes, the task stays panicked, and the run ends with an
\* error.
C8_PanicAborts ==
    /\ [](Panicked # {} => (exit # "ok" /\ opc \notin {"lock", "reduce", "write"}
                            /\ calls = NoCalls))
    /\ [][\A i \in Clients : wpc[i] = "panicked" => wpc'[i] = "panicked"]_vars
    /\ (Panicked # {}) ~> (opc = "exit" /\ exit = "err")

C8_Witness ==
    /\ opc = "exit" /\ exit = "err"
    /\ wpc[NumClients] = "panicked"
    /\ \A i \in Clients \ {NumClients} : wpc[i] = "done" /\ count[i] > 0

\* The ways a cache run ends: success after one reduction and one write; a
\* failed write; or a panicked worker task, found by the join.
C9_Outcome ==
    (opc = "exit" /\ CacheRun) =>
        \/ exit = "ok" /\ calls = [reduce |-> 1, write |-> 1] /\ Panicked = {}
        \/ exit = "err" /\ calls = [reduce |-> 1, write |-> 1] /\ Panicked = {}
        \/ exit = "err" /\ calls = NoCalls /\ Panicked # {}

\* C9: no outcome of a request makes a worker task panic or changes what the
\* orchestrator does: a worker waiting on a request or decoding goes on to its
\* delay, a task panics only before its loop, and the run's result is decided
\* by panics and the write alone.
C9_FetchNeverFatal ==
    /\ [](C9_Outcome)
    /\ [][\A i \in Clients :
            /\ (wpc[i] \in {"send", "json"} /\ wpc'[i] # wpc[i]) =>
                  (wpc'[i] \in {"json", "sleep"} /\ opc' = opc /\ exit' = exit)
            /\ (wpc'[i] = "panicked" /\ wpc[i] # "panicked") => wpc[i] = "new"]_vars

C9_Witness ==
    /\ opc = "exit" /\ exit = "ok" /\ times > 0
    /\ \A i \in Clients : count[i] = 0

Finite(v) == v[1] = "fin"
ExpFloor(S) == CHOOSE e \in {v[3] : v \in S} : \A v \in S : e <= v[3]
Scaled(v, E) == v[2] * Pow2(v[3] - E)
ExactSum(f, n, E) ==
    LET acc[k \in 0..n] == IF k = 0 THEN 0 ELSE acc[k - 1] + Scaled(f[k], E)
    IN acc[n]

\* n * r is within n * 2^(1 - Prec) of the exact sum of the n values f[1..n].
IsMeanOf(r, f, n) ==
    LET E == ExpFloor({f[k] : k \in 1..n} \cup {r})
        S == ExactSum(f, n, E)
        A == ExactSum([k \in 1..n |-> <<"fin", Abs(f[k][2]), f[k][3]>>], n, E)
    IN Pow2(Prec - 1) * Abs(n * Scaled(r, E) - S) <= n * A

LocalAverages == [i \in Clients |-> Average(i)]

\* C11: calculate_final_aggregate of an empty collection is 0.0; the final
\* aggregate of a run is, up to the rounding of the additions and of the
\* division, the sum of the workers' local averages divided by their number,
\* each average weighing the same whatever the worker's sample count, and it is
\* NaN when one of them is NaN.
C11_MeanOfMeans ==
    /\ calculate_final_aggregate(AggregatorNew) = Zero
    /\ (CacheRun /\ calls.reduce > 0) =>
          IF \E i \in Clients : ~Finite(LocalAverages[i])
          THEN IsNaN(final)
          ELSE Finite(final) /\ IsMeanOf(final, LocalAverages, NumClients)

\* Two workers with one and two samples (1; 7 and 7): the aggregate is the
\* mean of their averages 1 and 7, not the mean 5 of the three samples.
C11_Witness ==
    /\ CacheRun /\ calls.reduce > 0
    /\ \E i, j \in Clients :
          /\ count[i] = 1 /\ sum[i] = FromInt(1)
          /\ count[j] = 2 /\ sum[j] = FromInt(14)
          /\ final = FromInt(4)
          /\ final # FDiv(FAdd(sum[i], sum[j]), FromInt(count[i] + count[j]))

Orders(n) == {p \in [1..n -> 1..n] : \A a, b \in 1..n : p[a] = p[b] => a = b}
Permuted(s, p) == [k \in 1..Len(s) |-> s[p[k]]]

\* C12: the value calculate_final_aggregate returns for a collection is the
\* value it returns for every other order of the same values.
C12_OrderIndependent ==
    opc = "reduced" =>
        \A p \in Orders(Len(averages)) :
            calculate_final_aggregate(Permuted(averages, p)) = final

\* The sum a worker holds after c samples of the same value v.
RepeatedSum(v, c) == FSum([k \in 1..c |-> v])

\* Every fetch of every worker returned v, and each worker has a sample.
SameValue(v) ==
    \A i \in Clients : count[i] >= 1 /\ sum[i] = RepeatedSum(v, count[i])

\* k * v is a value of the format: adding v to (k - 1) * v does not round.
ExactMultiple(k, v) == Scaled(Round(k * v[2], v[3]), Min(v[3], Round(k * v[2], v[3])[3]))
                         = k * Scaled(v, Min(v[3], Round(k * v[2], v[3])[3]))

MostSamples == CHOOSE c \in {count[i] : i \in Clients} : \A i \in Clients : count[i] <= c

ExactVOutcome(v) ==
    /\ \A i \in DoneWorkers : Average(i) = v
    /\ \A k \in 1..Len(averages) : averages[k] = v
    /\ calls.reduce > 0 => final = v
    /\ exit = "ok" => store = Written(Truncated, v)

\* C13 as stated: when every fetch returned the same value v and every worker
\* has a sample, every local average, the final aggregate and the persisted
\* line are exactly v.
C13_ExactlyV ==
    \A v \in BarrierAmounts : (CacheRun /\ SameValue(v)) => ExactVOutcome(v)

\* C13, amended: the same, when moreover no multiple k * v rounds, for k up to
\* the largest sample count and up to the number of workers.
C13_ExactWhenSumsExact ==
    \A v \in BarrierAmounts :
        (/\ CacheRun /\ SameValue(v)
         /\ \A k \in 1..MostSamples : ExactMultiple(k, v)
         /\ \A k \in 1..NumClients : ExactMultiple(k, v))
        => ExactVOutcome(v)

\* Every sample was 7, a worker has two of them, and the line 7 is persisted.
C13_Witness ==
    /\ CacheRun /\ SameValue(FromInt(7))
    /\ \A k \in 1..MostSamples : ExactMultiple(k, FromInt(7))
    /\ \E i \in Clients : count[i] = 2
    /\ exit = "ok" /\ store = Written(Truncated, FromInt(7))

\* An argument vector that is no valid invocation: no mode, an unknown mode,
\* or cache mode without a second argument of the form --times=<N>.
InvalidArgs(a) ==
    \/ Len(a) < 2
    \/ a[2] \notin {ModeCache, ModeRead}
    \/ /\ a[2] = ModeCache
       /\ \/ Len(a) < 3
          \/ ~StartsWithTimes(a[3])
          \/ Len(a[3]) < 2
          \/ ~ParsesU64(a[3][2])

UsagePrinted == \E k \in 1..Len(out) - 1 : SubSeq(out, k, k + 1) = UsageText

\* C14: started with an invalid argument vector, the process prints the usage
\* text and exits with success at once, having spawned no worker, called
\* neither the reduction nor the writer, and left result.txt as it was.
C14_InvalidPrintsUsage ==
    (opc # "shell" /\ InvalidArgs(args)) =>
        /\ opc = "exit" /\ exit = "ok"
        /\ UsagePrinted
        /\ spawned = 0 /\ calls = NoCalls
        /\ store \in InitialStores

ReadRun == opc # "shell" /\ Len(args) >= 2 /\ args[2] = ModeRead

\* What a finished read run has printed, by what result.txt holds.
ReadReport ==
    IF ~store.exists
    THEN out = <<SelectedRead, "The result.txt file does not exist. Run in cache mode first.">>
    ELSE IF store.lines = <<>>
    THEN out = <<SelectedRead, "The result.txt file is empty. Run in cache mode first.">>
    ELSE IF exit = "ok"
    THEN out = <<SelectedRead>> \o store.lines
    ELSE \E k \in 0..Len(store.lines) - 1 : out = <<SelectedRead>> \o SubSeq(store.lines, 1, k)

ReadFrame ==
    /\ [](ReadRun => spawned = 0 /\ calls = NoCalls /\ \A i \in Clients : wpc[i] = "idle")
    /\ [][ReadRun => store' = store]_vars

\* C15 as stated: a read run always ends in success, having printed the
\* 'does not exist' message, the 'is empty' message or the stored lines, and
\* it spawns no worker and leaves result.txt as it was.
C15_ReadNeverFails ==
    /\ ReadFrame
    /\ []((ReadRun /\ opc = "exit") => (exit = "ok" /\ ReadReport))

\* C15, amended: the same, except that reading a non-empty file may end in an
\* error, after the lines before the failure have been printed.
C15_ReadFailsOnlyOnIO ==
    /\ ReadFrame
    /\ []((ReadRun /\ opc = "exit") =>
            /\ ReadReport
            /\ exit \in {"ok", "err"}
            /\ exit = "err" => store.exists /\ store.lines # <<>>)

\* A read run of a result.txt holding a line has printed it and succeeded.
C15_Witness ==
    /\ ReadRun /\ opc = "exit" /\ exit = "ok"
    /\ store.lines # <<>> /\ out = <<SelectedRead>> \o store.lines

\* The request of worker i is sent in this step.
StartsFetch(i) == wpc[i] # "send" /\ wpc'[i] = "send"

\* C16: a worker starts a fetch only in the step in which its deadline check
\* finds elapsed < times; every fetch attempt, whether the send failed, the body
\* did not decode or a sample was taken, ends in the one-second sleep; and the
\* next deadline check comes only when that sleep is over.  So the clock never
\* passes the deadline between two fetches of a worker.
C16_CheckFetchSleep ==
    /\ [][\A i \in Clients :
            /\ StartsFetch(i) => (wpc[i] = "check" /\ now - start_time < times)
            /\ (wpc[i] = "send" /\ wpc'[i] # "send") => wpc'[i] \in {"json", "sleep"}
            /\ (wpc[i] = "json" /\ wpc'[i] # "json") => wpc'[i] = "sleep"
            /\ (wpc[i] = "sleep" /\ wpc'[i] # "sleep") =>
                  (wpc'[i] = "check" /\ (now' = now + 1 \/ now' = times))
            /\ (wpc[i] # "check" /\ wpc'[i] = "check") => wpc[i] \in {"new", "sleep"}]_vars
    /\ [](\A i \in Clients : wpc[i] \in {"send", "json", "sleep"} => times > 0)

\* A fetch that began before the deadline is still in flight at the deadline.
C16_Witness ==
    \E i \in Clients : wpc[i] = "send" /\ times > 0 /\ now - start_time = times

\* Worker i has left its loop: its deadline check found the deadline reached.
PastDeadline(i) == wpc[i] \in {"final", "locked", "done"}

\* C17: the start instant is recorded once, before any worker is spawned, and
\* it is the instant every spawned worker measures from; the clock never goes
\* back; so from the moment one worker's deadline check has found the deadline
\* reached, no worker sends a request.
C17_SharedStart ==
    /\ [](\A i \in Clients : wpc[i] # "idle" => wstart[i] = start_time)
    /\ [][start_time' # start_time => (opc = "shell" /\ spawned = 0)]_vars
    /\ [][opc # "shell" => start_time' = start_time]_vars
    /\ [][now' >= now]_vars
    /\ [][(\E i \in Clients : PastDeadline(i)) => \A j \in Clients : ~StartsFetch(j)]_vars

\* One worker has left its loop while another, with a sample, is still asleep
\* in it.
C17_Witness ==
    \E i, j \in Clients : PastDeadline(i) /\ wpc[j] = "sleep" /\ count[j] >= 1

\* A step in which a spawned worker moves.
WorkerStep == \E i \in Clients : wpc[i] # "idle" /\ wpc'[i] # wpc[i]

Aborted == CacheRun /\ opc = "exit" /\ exit = "err" /\ joined < NumClients

\* C19: result.txt changes only in the write that follows the join of every
\* worker, none of which panicked; a run aborted by the join has called
\* neither the reduction nor the writer and has printed no aggregate; and an
\* aborted run does nothing more.  So the file of an aborted run is the file
\* the run started with, whatever the surviving workers had appended.
C19_AbortKeepsStore ==
    /\ [][store' # store =>
            (opc = "write" /\ joined = NumClients /\ Panicked = {}
             /\ Len(averages) = NumClients)]_vars
    /\ [](Aborted => /\ wpc[joined + 1] = "panicked"
                      /\ calls = NoCalls /\ final = Zero
                      /\ out = <<SelectedCache>>
                      /\ store \in InitialStores)
    /\ [][Aborted => UNCHANGED <<store, calls, final, out, opc, exit>>]_vars

\* An aborted run in which a surviving worker had appended its average, and
\* result.txt still holds the line of an earlier run.
C19_Witness ==
    /\ Aborted
    /\ \E i \in Clients : wpc[i] = "done" /\ averages = <<Average(i)>>
    /\ store = Written(Truncated, NaN)
====
